---- MODULE Spec2Model ----
(***************************************************************************)
(* panomena_general.utils.parse_kw_args: the keyword-argument parser used  *)
(* by the template tags.  A call is a small state machine: entry (lines    *)
(* 120-128), one loop iteration per token (lines 130-173), return (line    *)
(* 175).  Strings are sequences of one-character strings, so that          *)
(* str.split, re.match and int() are computed on characters.               *)
(***************************************************************************)
EXTENDS Integers, Sequences, FiniteSets, TLC

(* ---------------------------------------------------------------- bounds *)
\* the characters of all the tokens of one call, taken together
MaxChars == 5

\* PagingNode.render: the objects of the list, the page size, and the
\* characters of the page parameter of the query string
MaxCount == 3
MaxSize == 2
MaxParamLen == 2

(* ---------------------------------------------------------------- inputs *)
Alphabet == {"a", "1", "="}
Digits == {"1"}

\* the tokens of exactly k characters
Tokens(k) == [1..k -> Alphabet]

RECURSIVE BitsLists(_)
\* the token lists of at most n characters in all; no token is empty
\* (token.split_contents() yields none)
BitsLists(n) ==
  {<<>>} \cup UNION {{<<t>> \o rest : t \in Tokens(k), rest \in BitsLists(n - k)} : k \in 1..n}

TagNames == {<<"t", "a", "g">>}

\* the three kinds of validator of the docstring: None, a callable, a regexp
NoneValidator == [kind |-> "none", pat |-> <<>>]
IntValidator == [kind |-> "callable", pat |-> <<>>]
ReValidator(p) == [kind |-> "re", pat |-> p]
Validators == {NoneValidator, IntValidator, ReValidator(<<"1">>)}

\* argument names that args_spec may have as keys
SpecNames == {<<"a">>, <<"1">>}

\* args_spec: None (given = FALSE) or a dict name -> validator
NoSpec == [given |-> FALSE, map |-> <<>>]
Dict(m) == [given |-> TRUE, map |-> m]
ArgSpecs == {NoSpec} \cup {Dict(m) : m \in UNION {[K -> Validators] : K \in {SpecNames}}}

(* ------------------------------------------------------- python builtins *)
\* values: a str (sequence of characters) or an int
Text(s) == [k |-> "str", v |-> s]
Number(n) == [k |-> "int", v |-> n]
Exc(m) == [k |-> "exc", v |-> m]
\* the pieces of a format string: literal text and conversions
Lit(t) == [k |-> "lit", v |-> t]
Conv(c) == [k |-> "conv", v |-> c]

RECURSIVE Find(_, _, _)
\* the first index >= p of s holding c, 0 when none (str.find, list.index)
Find(s, c, p) ==
  IF p > Len(s) THEN 0
  ELSE IF s[p] = c THEN p
  ELSE Find(s, c, p + 1)

\* s.split(sep, 1): cuts at the first occurrence of sep only
Split_Once(s, sep) ==
  LET p == Find(s, sep, 1)
  IN IF p = 0 THEN <<s>>
     ELSE <<SubSeq(s, 1, p - 1), SubSeq(s, p + 1, Len(s))>>

RECURSIVE Split(_, _)
\* s.split(sep) for a one-character sep: cuts at EVERY occurrence of sep
Split(s, sep) ==
  LET p == Find(s, sep, 1)
  IN IF p = 0 THEN <<s>>
     ELSE <<SubSeq(s, 1, p - 1)>> \o Split(SubSeq(s, p + 1, Len(s)), sep)

RECURSIVE Join(_, _)
\* sep.join(list)
Join(list, sep) ==
  IF list = <<>> THEN <<>>
  ELSE IF Len(list) = 1 THEN list[1]
  ELSE list[1] \o <<sep>> \o Join(Tail(list), sep)

\* name in list
InList(x, list) == \E k \in 1..Len(list) : list[k] = x

\* del list[p]
DelAt(list, p) == SubSeq(list, 1, p - 1) \o SubSeq(list, p + 1, Len(list))

RECURSIVE SetToList(_)
\* list(d.keys()): the keys of a dict, each once, in the dict's own order
SetToList(S) ==
  IF S = {} THEN <<>>
  ELSE LET x == CHOOSE y \in S : TRUE IN <<x>> \o SetToList(S \ {x})

DigitValue(c) == IF c = "1" THEN 1 ELSE IF c = "2" THEN 2 ELSE 0

RECURSIVE Decimal(_)
Decimal(s) ==
  IF s = <<>> THEN 0
  ELSE 10 * Decimal(SubSeq(s, 1, Len(s) - 1)) + DigitValue(s[Len(s)])

\* int(s): the number s denotes, ValueError when s is empty or has a non-digit
PyInt(s) ==
  IF s # <<>> /\ \A k \in 1..Len(s) : s[k] \in Digits
  THEN [ok |-> TRUE, ret |-> Number(Decimal(s)), msg |-> <<>>]
  ELSE [ok |-> FALSE, ret |-> Text(s),
        msg |-> <<Lit("invalid literal for int() with base 10: "), Text(s)>>]

\* re.match(pattern, s) for a pattern of literal characters: the pattern
\* must match at the START of s (not the whole of s, not anywhere in s)
ReMatch(pattern, s) ==
  /\ Len(pattern) <= Len(s)
  /\ SubSeq(s, 1, Len(pattern)) = pattern

(* ------------------------------------------------ the % format operator *)

\* conversion characters of the % operator that the messages use
ConvChars == {"s"}

RECURSIVE PyFormat(_, _, _)
\* fmt % fargs: literals are copied, each conversion takes the next
\* argument; an unknown conversion character is a ValueError, too few or
\* too many arguments a TypeError
PyFormat(fmt, fargs, out) ==
  IF fmt = <<>>
  THEN IF fargs = <<>>
       THEN [ok |-> TRUE, text |-> out, type |-> "str"]
       ELSE [ok |-> FALSE, type |-> "TypeError",
             text |-> <<Lit("not all arguments converted during string formatting")>>]
  ELSE LET h == Head(fmt) IN
       IF h.k = "lit" THEN PyFormat(Tail(fmt), fargs, Append(out, h))
       ELSE IF fargs = <<>>
       THEN [ok |-> FALSE, type |-> "TypeError",
             text |-> <<Lit("not enough arguments for format string")>>]
       ELSE IF h.v \notin ConvChars
       THEN [ok |-> FALSE, type |-> "ValueError",
             text |-> <<Lit("unsupported format character"), Lit(h.v)>>]
       ELSE PyFormat(Tail(fmt), Tail(fargs), Append(out, Head(fargs)))

\* template.TemplateSyntaxError(fmt % fargs): the message is formatted
\* first, so a failure of the formatting is what gets raised
TemplateSyntaxError(site, fmt, fargs) ==
  LET r == PyFormat(fmt, fargs, <<>>)
  IN IF r.ok
     THEN [type |-> "TemplateSyntaxError", site |-> site, msg |-> r.text]
     ELSE [type |-> r.type, site |-> site, msg |-> r.text]

\* the configuration error raised as a tag syntax error
ConfigurationError_AsSyntax ==
  [type |-> "TemplateSyntaxError", site |-> "config",
   msg |-> <<Lit("you must pass an args_spec dict if you want to restrict allowed args")>>]

\* line 124
ConfigurationError ==
  [type |-> "ValueError", site |-> "config",
   msg |-> <<Lit("you must pass an args_spec dict if you want to restrict allowed args")>>]

\* lines 135, 147, 161, 168: the four message formats
FormFormat ==
  <<Lit("keyword arguments to '"), Conv("s"),
    Lit("' tag must have 'key=value' form (got : '"), Conv("s"), Lit("')")>>
NameFormat ==
  <<Lit("keyword arguments to '"), Conv("s"), Lit("' tag must be one of "),
    Conv("("), Lit("got : '"), Conv("s"), Lit("')")>>
CallableFormat ==
  <<Lit("invalid optional argument '"), Conv("s"), Lit("' for '"), Conv("s"),
    Lit("' tag: '"), Conv("s"), Lit("' ("), Conv("s"), Lit(")")>>
ReFormat ==
  <<Lit("invalid optional argument '"), Conv("s"), Lit("' for '"), Conv("s"),
    Lit("' tag: '"), Conv("s"), Lit("' (doesn't match '"), Conv("s"), Lit("')")>>

NoException == [type |-> "none", site |-> "none", msg |-> <<>>]

(* ----------------------------------------------------------------- state *)
VARIABLES
  tagname, bits, args_spec, restrict,  \* the arguments of the call
  args, allowed, do_validate,          \* the locals of parse_kw_args
  i,                                   \* position of `for bit in bits`
  pc,                                  \* "call", "loop", "returned", "raised"
  exc,                                 \* the exception raised, if any
  calls,                               \* the validator invocations of this call
  given,                               \* the arguments as first passed
  prev,                                \* the outcome of the previous call
  context, objects, size,              \* PagingNode.render: what it resolves
  page,                                \* its local `page`
  rpc,                                 \* "render", "number", "paginate", "done", "raised"
  rexc,                                \* the exception render raised, if any
  context0                             \* the context as render found it

paging == <<context, objects, size, page, rpc, rexc, context0>>

vars == <<tagname, bits, args_spec, restrict, args, allowed, do_validate,
          i, pc, exc, calls, given, prev, paging>>

inputs == <<tagname, bits, args_spec, restrict, given>>

parsing == <<inputs, args, allowed, do_validate, i, pc, exc, calls, prev>>

NoOutcome == [pc |-> "none", args |-> <<>>, exc |-> NoException]
Outcome == [pc |-> pc, args |-> args, exc |-> exc]

\* no template is being rendered
NoPage == [set |-> FALSE, number |-> 0, num_pages |-> 0]
NoRequest == [present |-> FALSE, has |-> FALSE, value |-> <<>>]
PagingIdle ==
  /\ context = [request |-> NoRequest, page |-> NoPage]
  /\ context0 = context
  /\ objects = 0
  /\ size = 1
  /\ page = 1
  /\ rpc = "idle"
  /\ rexc = "none"

Init ==
  /\ tagname \in TagNames
  /\ bits \in BitsLists(MaxChars)
  /\ args_spec \in ArgSpecs
  /\ restrict \in BOOLEAN
  /\ given = [tagname |-> tagname, bits |-> bits, args_spec |-> args_spec,
              restrict |-> restrict]
  /\ args = <<>>
  /\ allowed = <<>>
  /\ do_validate = FALSE
  /\ i = 1
  /\ pc = "call"
  /\ exc = NoException
  /\ calls = <<>>
  /\ prev = NoOutcome
  /\ PagingIdle

\* a list that outlives the call, filled by the first call only
AllowedAtEntry_Stale ==
  IF prev = NoOutcome THEN SetToList(DOMAIN args_spec.map) ELSE allowed

\* line 125: allowed = list(args_spec.keys())
AllowedAtEntry == SetToList(DOMAIN args_spec.map)

\* lines 120-128
Enter ==
  /\ pc = "call"
  /\ args' = <<>>
  /\ i' = 1
  /\ calls' = <<>>
  /\ IF restrict
     THEN IF ~args_spec.given
          THEN /\ pc' = "raised"
               /\ exc' = ConfigurationError
               /\ UNCHANGED <<allowed, do_validate>>
          ELSE /\ allowed' = AllowedAtEntry
               /\ do_validate' = TRUE
               /\ pc' = "loop"
               /\ exc' = NoException
     ELSE /\ do_validate' = args_spec.given
          /\ allowed' = <<>>
          /\ pc' = "loop"
          /\ exc' = NoException
  /\ UNCHANGED <<inputs, prev, paging>>

\* names checked whenever validation is on
CheckNames_WhenValidating == do_validate

\* line 141: whether the name of a token is checked against `allowed`
CheckNames == restrict

\* the name is found but not removed
AllowedWithout_Kept(list, name) == list

\* line 144: del allowed[allowed.index(name)]
AllowedWithout(list, name) == DelAt(list, Find(list, name, 1))

\* lines 151-153: args_spec[name] under restrict, args_spec.get(name, None)
Lookup(name) ==
  IF name \in DOMAIN args_spec.map THEN args_spec.map[name] ELSE NoneValidator

\* the test of line 166 inverted
Rejected_OnMatch(validate, val) == ReMatch(validate.pat, val)

\* line 166: the value is rejected when re.match gives None
Rejected(validate, val) == ~ReMatch(validate.pat, val)

\* the pair is put in front
Appended_InFront(list, name, val) == <<<<name, val>>>> \o list

\* line 173: args.append((name, val))
Appended(list, name, val) == Append(list, <<name, val>>)

\* validate(val) called, its result dropped
CallValidator_Dropped(val) == [PyInt(val) EXCEPT !.ret = Text(val)]

\* line 158: val = validate(val)
CallValidator(val) == PyInt(val)

\* the error is swallowed and the loop goes on with the next token
Raise_Swallowed(e) ==
  /\ i' = i + 1
  /\ UNCHANGED <<args, pc, exc>>

\* raise: the call ends, the position stays on the offending token
Raise(e) ==
  /\ pc' = "raised"
  /\ exc' = e
  /\ UNCHANGED <<args, i>>

\* lines 155-173 for a token whose name passed the name check
Validate(name, val) ==
  LET validate == IF do_validate THEN Lookup(name) ELSE NoneValidator IN
  IF validate.kind = "callable"
  THEN LET r == CallValidator(val) IN
       /\ calls' = Append(calls, [name |-> name, arg |-> Text(val), ok |-> r.ok,
                                  ret |-> r.ret, msg |-> r.msg])
       /\ IF r.ok
          THEN /\ args' = Appended(args, name, r.ret)
               /\ i' = i + 1
               /\ UNCHANGED <<pc, exc>>
          ELSE Raise(TemplateSyntaxError("callable", CallableFormat,
                       <<Text(tagname), Text(name), Text(val), Exc(r.msg)>>))
  ELSE IF validate.kind = "re" /\ Rejected(validate, val)
  THEN /\ Raise(TemplateSyntaxError("re", ReFormat,
                  <<Text(tagname), Text(name), Text(val), Text(validate.pat)>>))
       /\ UNCHANGED calls
  ELSE /\ args' = Appended(args, name, Text(val))
       /\ i' = i + 1
       /\ UNCHANGED <<pc, exc, calls>>

\* lines 130-173: one iteration of `for bit in bits`
Iterate ==
  /\ pc = "loop"
  /\ i <= Len(bits)
  /\ LET bit == bits[i]
         parts == Split(bit, "=")
     IN IF Len(parts) # 2
        THEN /\ Raise(TemplateSyntaxError("form", FormFormat,
                        <<Text(tagname), Text(bit)>>))
             /\ UNCHANGED <<allowed, calls>>
        ELSE LET name == parts[1]
                 val == parts[2]
             IN IF do_validate /\ CheckNames
                THEN IF InList(name, allowed)
                     THEN /\ allowed' = AllowedWithout(allowed, name)
                          /\ Validate(name, val)
                     ELSE /\ Raise(TemplateSyntaxError("name", NameFormat,
                                     <<Text(tagname), Text(Join(allowed, ",")),
                                       Text(name)>>))
                          /\ UNCHANGED <<allowed, calls>>
                ELSE /\ Validate(name, val)
                     /\ UNCHANGED allowed
  /\ UNCHANGED <<inputs, do_validate, prev, paging>>

\* line 175
Return ==
  /\ pc = "loop"
  /\ i > Len(bits)
  /\ pc' = "returned"
  /\ UNCHANGED <<inputs, args, allowed, do_validate, i, exc, calls, prev, paging>>

\* the caller calls again with the same argument objects
CallAgain ==
  /\ pc \in {"returned", "raised"}
  /\ prev = NoOutcome
  /\ prev' = Outcome
  /\ pc' = "call"
  /\ UNCHANGED <<inputs, args, allowed, do_validate, i, exc, calls, paging>>

Next == Enter \/ Iterate \/ Return \/ CallAgain

Spec == Init /\ [][Next]_vars

(***************************************************************************)
(* panomena_general.templatetags.general.PagingNode.render (lines 29-50).  *)
(* The list of objects counts through its length only; the context holds   *)
(* the request and the entry under the tag's key.  Paginator is Django's   *)
(* (django.core.paginator, orphans=0, allow_empty_first_page=True).        *)
(***************************************************************************)
PageAlphabet == {"0", "1", "2", "-", "a"}
PageDigits == {"0", "1", "2"}

\* the values the page parameter of the query string may have
ParamStrings == UNION {[1..k -> PageAlphabet] : k \in 0..MaxParamLen}

\* a request whose GET lacks the key, or has it with value v
RequestWithout == [present |-> TRUE, has |-> FALSE, value |-> <<>>]
RequestWith(v) == [present |-> TRUE, has |-> TRUE, value |-> v]
Requests == {NoRequest, RequestWithout} \cup {RequestWith(v) : v \in ParamStrings}

\* a Page stored in the context: its number and the pages of its paginator
Page(n, np) == [set |-> TRUE, number |-> n, num_pages |-> np]
\* what an earlier tag may have left under the key
StalePage == Page(1, 1)

\* int(s) for a str: an optional sign and at least one digit
IsDigits(d) == d # <<>> /\ \A k \in 1..Len(d) : d[k] \in PageDigits
PyIntSigned(s) ==
  IF s # <<>> /\ s[1] = "-"
  THEN IF IsDigits(Tail(s)) THEN [ok |-> TRUE, n |-> 0 - Decimal(Tail(s))]
       ELSE [ok |-> FALSE, n |-> 0]
  ELSE IF IsDigits(s) THEN [ok |-> TRUE, n |-> Decimal(s)]
       ELSE [ok |-> FALSE, n |-> 0]

\* int(ceil(hits / float(per_page))) for per_page # 0
CeilDiv(hits, per_page) ==
  IF per_page > 0 THEN (hits + per_page - 1) \div per_page
  ELSE 0 - (hits \div (0 - per_page))

\* Paginator.num_pages: hits = max(1, count); dividing by a per_page of 0
\* is a ZeroDivisionError
NumPages(count, per_page) ==
  IF per_page = 0 THEN [ok |-> FALSE, exc |-> "ZeroDivisionError", n |-> 0]
  ELSE [ok |-> TRUE, exc |-> "none",
        n |-> CeilDiv(IF count > 1 THEN count ELSE 1, per_page)]

\* Paginator.page(number): EmptyPage for a number below 1, or above
\* num_pages unless it is 1 (the first page may be empty)
PaginatorPage(number, count, per_page) ==
  IF number < 1 THEN [ok |-> FALSE, exc |-> "EmptyPage", page |-> NoPage]
  ELSE LET np == NumPages(count, per_page) IN
       IF ~np.ok THEN [ok |-> FALSE, exc |-> np.exc, page |-> NoPage]
       ELSE IF number > np.n /\ number # 1
       THEN [ok |-> FALSE, exc |-> "EmptyPage", page |-> NoPage]
       ELSE [ok |-> TRUE, exc |-> "none", page |-> Page(number, np.n)]

InitPaging ==
  /\ context \in [request : Requests, page : {NoPage, StalePage}]
  /\ context0 = context
  /\ objects \in 0..MaxCount
  /\ size \in -1..MaxSize
  /\ page = 1
  /\ rpc = "render"
  /\ rexc = "none"
  /\ tagname = <<>>
  /\ bits = <<>>
  /\ args_spec = NoSpec
  /\ restrict = FALSE
  /\ given = [tagname |-> tagname, bits |-> bits, args_spec |-> args_spec,
              restrict |-> restrict]
  /\ args = <<>>
  /\ allowed = <<>>
  /\ do_validate = FALSE
  /\ i = 1
  /\ pc = "idle"
  /\ exc = NoException
  /\ calls = <<>>
  /\ prev = NoOutcome

\* lines 31-37: resolve the variables, get the request
RenderRequest ==
  /\ rpc = "render"
  /\ IF ~context.request.present
     THEN /\ rpc' = "raised"
          /\ rexc' = "RequestContextRequiredException"
     ELSE /\ rpc' = "number"
          /\ UNCHANGED rexc
  /\ UNCHANGED <<context, objects, size, page, context0, parsing>>

\* lines 39-40: page = int(request.GET.get(key, '1')), 1 on ValueError
RenderNumber ==
  /\ rpc = "number"
  /\ LET r == PyIntSigned(IF context.request.has THEN context.request.value
                          ELSE <<"1">>)
     IN page' = IF r.ok THEN r.n ELSE 1
  /\ rpc' = "paginate"
  /\ UNCHANGED <<context, objects, size, rexc, context0, parsing>>

\* the fallback is the first page
FallbackNumber_First(num_pages) == 1

\* line 47: the page asked for after EmptyPage or InvalidPage
FallbackNumber(num_pages) == num_pages

\* context[key] = page; return ''
Store(p) ==
  /\ context' = [context EXCEPT !.page = p]
  /\ rpc' = "done"
  /\ UNCHANGED rexc

\* an exception leaves render
RenderRaise(e) ==
  /\ rpc' = "raised"
  /\ rexc' = e
  /\ UNCHANGED context

\* lines 42-50: the paginator, its page or else its last page, the store
RenderPaginate ==
  /\ rpc = "paginate"
  /\ LET first == PaginatorPage(page, objects, size) IN
     IF first.ok THEN Store(first.page)
     ELSE IF first.exc # "EmptyPage" THEN RenderRaise(first.exc)
     ELSE LET np == NumPages(objects, size) IN
          IF ~np.ok THEN RenderRaise(np.exc)
          ELSE LET last == PaginatorPage(FallbackNumber(np.n), objects, size) IN
               IF last.ok THEN Store(last.page) ELSE RenderRaise(last.exc)
  /\ UNCHANGED <<objects, size, page, context0, parsing>>

NextPaging == RenderRequest \/ RenderNumber \/ RenderPaginate

SpecPaging == InitPaging /\ [][NextPaging]_vars

(* ------------------------------------------------------------ properties *)
\* what the properties say of a token, read off its characters
EqCount(t) == Cardinality({k \in 1..Len(t) : t[k] = "="})
FirstEq(t) == CHOOSE k \in 1..Len(t) : t[k] = "=" /\ \A j \in 1..(k - 1) : t[j] # "="
NameOf(t) == SubSeq(t, 1, FirstEq(t) - 1)
ValueOf(t) == SubSeq(t, FirstEq(t) + 1, Len(t))
StartsWith(s, p) == Len(p) <= Len(s) /\ \A j \in 1..Len(p) : s[j] = p[j]

Keys == DOMAIN args_spec.map
Done == pc \in {"returned", "raised"}
Running == pc \in {"loop", "returned", "raised"}
Consistent == ~(restrict /\ ~args_spec.given)
Carries(piece) ==
  \E j \in 1..Len(exc.msg) : exc.msg[j].k = piece.k /\ exc.msg[j].v = piece.v

\* token k has the name=value form
WellFormed(k) == EqCount(bits[k]) = 1
\* the name of token k was used by an earlier token
Repeated(k) ==
  \E j \in 1..(k - 1) : WellFormed(j) /\ NameOf(bits[j]) = NameOf(bits[k])
\* token k passes the name check of restrict mode, or there is none
Admitted(k) ==
  /\ WellFormed(k)
  /\ restrict => (NameOf(bits[k]) \in Keys /\ ~Repeated(k))
\* the validator registered for token k has the given kind
HasValidator(k, kind) ==
  /\ Admitted(k)
  /\ NameOf(bits[k]) \in Keys
  /\ args_spec.map[NameOf(bits[k])].kind = kind
\* token k is the one the call failed on
FailedOn(k) == pc = "raised" /\ exc.site # "config" /\ i = k
\* the call is over and its loop has examined token k
Examined(k) == Done /\ exc.site # "config" /\ (k < i \/ FailedOn(k))

\* C1: with no args_spec and restrict=False, a list of name=value tokens
\* with unique names never fails, and gives one (name, value) pair per
\* token, in the order of the tokens, each value the raw text after the '='
C1_Valid ==
  /\ ~args_spec.given
  /\ ~restrict
  /\ \A k \in 1..Len(bits) : WellFormed(k) /\ ~Repeated(k)
C1_PlainPairsInOrder ==
  (Done /\ C1_Valid) =>
    /\ pc = "returned"
    /\ Len(args) = Len(bits)
    /\ \A k \in 1..Len(args) :
         args[k] = <<NameOf(bits[k]), Text(ValueOf(bits[k]))>>
C1_Witness ==
  /\ C1_Valid
  /\ pc = "returned"
  /\ Len(bits) >= 2
  /\ args[1] # args[2]

\* C2: under restrict=True a token whose name is no key of args_spec, or
\* was used by an earlier token, makes the call fail with a tag syntax
\* error that lists the names still allowed, and is never in a result
C2_Offending(k) ==
  WellFormed(k) /\ (NameOf(bits[k]) \notin Keys \/ Repeated(k))
C2_DisallowedNameIsSyntaxError ==
  (restrict /\ args_spec.given /\ Done) =>
    /\ (\E k \in 1..Len(bits) : C2_Offending(k)) => pc = "raised"
    /\ \A k \in 1..Len(bits) :
         (C2_Offending(k) /\ FailedOn(k)) =>
           /\ exc.type = "TemplateSyntaxError"
           /\ Carries(Text(Join(allowed, ",")))

\* C3 (as stated): a token is split on its first '=', so that only a token
\* with no '=' at all is rejected as malformed
C3_OnlyNoEqIsMalformed ==
  \A k \in 1..Len(bits) :
    (FailedOn(k) /\ exc.site = "form") => EqCount(bits[k]) = 0

\* C3 (amended): a token is split on every '=' and must give exactly two
\* parts: a token with no '=' or with two or more '=' is rejected as
\* malformed with a tag syntax error naming the tag and the token, and a
\* token with exactly one '=' has the text before it as its name and the
\* text after it as its raw value
C3_ExactlyOneEq ==
  Done =>
  /\ \A k \in 1..Len(bits) :
       /\ (FailedOn(k) /\ exc.site = "form") =>
            /\ EqCount(bits[k]) # 1
            /\ exc.type = "TemplateSyntaxError"
            /\ Carries(Text(tagname))
            /\ Carries(Text(bits[k]))
       /\ (FailedOn(k) /\ exc.site # "form") => EqCount(bits[k]) = 1
       /\ (Examined(k) /\ EqCount(bits[k]) # 1) =>
            (FailedOn(k) /\ exc.site = "form")
  /\ \A k \in 1..Len(args) :
       /\ EqCount(bits[k]) = 1
       /\ args[k][1] = NameOf(bits[k])
       /\ args[k][2].k = "str" => args[k][2].v = ValueOf(bits[k])
C3_Witness ==
  \E k \in 1..Len(bits) :
    /\ FailedOn(k)
    /\ exc.site = "form"
    /\ EqCount(bits[k]) >= 2
    /\ Len(args) = k - 1
    /\ k > 1

\* C4: with a consistent configuration, a token list holding a token with
\* no '=' never gives a result: the call fails with a tag syntax error
C4_MissingEqIsSyntaxError ==
  (Consistent /\ Done /\ \E k \in 1..Len(bits) : EqCount(bits[k]) = 0) =>
    /\ pc = "raised"
    /\ exc.type = "TemplateSyntaxError"

\* C5: restrict=True with args_spec=None always fails with the
\* configuration error, a ValueError and no tag syntax error, before any
\* token is examined and with no validator invoked
C5_ConfigurationErrorFirst ==
  (restrict /\ ~args_spec.given /\ Running) =>
    /\ pc = "raised"
    /\ exc.type = "ValueError"
    /\ exc.type # "TemplateSyntaxError"
    /\ exc.site = "config"
    /\ i = 1
    /\ args = <<>>
    /\ calls = <<>>
C5_Witness ==
  /\ restrict
  /\ ~args_spec.given
  /\ pc = "raised"
  /\ \E k \in 1..Len(bits) : EqCount(bits[k]) = 0

RECURSIVE CallableArgs(_)
\* the raw values of the examined, admitted tokens among the first k
\* whose validator is a callable, in the order of the tokens
CallableArgs(k) ==
  IF k = 0 THEN <<>>
  ELSE IF Examined(k) /\ HasValidator(k, "callable")
  THEN Append(CallableArgs(k - 1), Text(ValueOf(bits[k])))
  ELSE CallableArgs(k - 1)

\* C6: when the call is over, a callable validator was invoked exactly
\* once per examined token of its name, with the raw value; what it
\* returned is the value of the pair, and when it raised the call failed with a tag syntax error carrying the argument
\* name, the raw value and the message of the failure
C6_CallableValidator ==
  (Done /\ Consistent) =>
    /\ [j \in 1..Len(calls) |-> calls[j].arg] = CallableArgs(Len(bits))
    /\ \A k \in 1..Len(args) :
         HasValidator(k, "callable") =>
           LET j == Len(CallableArgs(k)) IN
           /\ calls[j].ok
           /\ args[k] = <<NameOf(bits[k]), calls[j].ret>>
           /\ calls[j].ret = PyInt(ValueOf(bits[k])).ret
    /\ \A k \in 1..Len(bits) :
         (FailedOn(k) /\ HasValidator(k, "callable")) =>
           /\ ~calls[Len(calls)].ok
           /\ exc.type = "TemplateSyntaxError"
           /\ Carries(Text(NameOf(bits[k])))
           /\ Carries(Text(ValueOf(bits[k])))
           /\ Carries(Exc(calls[Len(calls)].msg))
    /\ \A j \in 1..Len(calls) : ~calls[j].ok => (j = Len(calls) /\ pc = "raised")
    /\ pc = "returned" => Len(args) = Len(bits)
C6_Witness ==
  /\ pc = "raised"
  /\ Len(args) = 1
  /\ args[1][2].k = "int"
  /\ Len(calls) = 2
  /\ ~calls[2].ok
  /\ \E k \in 1..Len(bits) : FailedOn(k) /\ HasValidator(k, "callable")

\* C7: a pattern validator makes the call fail with a tag syntax error
\* describing the pattern when the raw value does not match it, and
\* otherwise the pair is emitted with the raw value unchanged
C7_PatternValidator ==
  (Done /\ Consistent) =>
    \A k \in 1..Len(bits) :
      HasValidator(k, "re") =>
        LET pat == args_spec.map[NameOf(bits[k])].pat
            raw == ValueOf(bits[k])
        IN /\ FailedOn(k) =>
                /\ ~StartsWith(raw, pat)
                /\ exc.type = "TemplateSyntaxError"
                /\ Carries(Text(pat))
                /\ Carries(Text(raw))
           /\ (Examined(k) /\ ~StartsWith(raw, pat)) => FailedOn(k)
           /\ k <= Len(args) =>
                /\ StartsWith(raw, pat)
                /\ args[k] = <<NameOf(bits[k]), Text(raw)>>
C7_Witness ==
  /\ pc = "raised"
  /\ Len(args) = 1
  /\ HasValidator(1, "re")
  /\ args[1][2] = Text(ValueOf(bits[1]))
  /\ FailedOn(2)
  /\ HasValidator(2, "re")

\* token k is well formed and no validator other than None is registered
\* for its name
Unvalidated(k) ==
  /\ WellFormed(k)
  /\ NameOf(bits[k]) \in Keys => args_spec.map[NameOf(bits[k])].kind = "none"

\* C8: with restrict=False and an args_spec, a token whose name is no key
\* of args_spec, or has None as validator, is accepted with its raw value,
\* also when its name repeats; only names with a validator are validated
C8_UnknownNamesPass ==
  (Done /\ ~restrict /\ args_spec.given) =>
    /\ \A k \in 1..Len(bits) : Unvalidated(k) => ~FailedOn(k)
    /\ \A k \in 1..Len(args) :
         Unvalidated(k) => args[k] = <<NameOf(bits[k]), Text(ValueOf(bits[k]))>>
    /\ \A j \in 1..Len(calls) :
         /\ calls[j].name \in Keys
         /\ args_spec.map[calls[j].name].kind = "callable"
    /\ (\A k \in 1..Len(bits) : Unvalidated(k)) =>
         (pc = "returned" /\ Len(args) = Len(bits))
C8_Witness ==
  /\ ~restrict
  /\ args_spec.given
  /\ pc = "returned"
  /\ Len(args) = 3
  /\ NameOf(bits[1]) \notin Keys
  /\ NameOf(bits[2]) \in Keys
  /\ Unvalidated(2)
  /\ Repeated(3)

\* C9: a call leaves its arguments as they were and keeps nothing for the
\* next call: the second call with the same arguments starts with every
\* key of args_spec allowed again and ends as the first one did
C9_NoStateBetweenCalls ==
  /\ tagname = given.tagname
  /\ bits = given.bits
  /\ args_spec = given.args_spec
  /\ restrict = given.restrict
  /\ (pc = "loop" /\ i = 1 /\ restrict) =>
       /\ {allowed[k] : k \in 1..Len(allowed)} = Keys
       /\ Len(allowed) = Cardinality(Keys)
  /\ (prev # NoOutcome /\ Done) => Outcome = prev
C9_Witness ==
  /\ prev # NoOutcome
  /\ restrict
  /\ pc = "returned"
  /\ Len(args) = 2
  /\ allowed = <<>>

\* C10: a normal return under restrict=True has pairwise distinct names,
\* all of them keys of args_spec, and one pair per token, so at most as
\* many pairs as args_spec has keys; a key no token used is no error
C10_RestrictedResult ==
  (restrict /\ pc = "returned") =>
    /\ \A j, k \in 1..Len(args) : j # k => args[j][1] # args[k][1]
    /\ \A k \in 1..Len(args) : args[k][1] \in Keys
    /\ Len(args) = Len(bits)
    /\ Len(args) <= Cardinality(Keys)
    /\ Len(allowed) = Cardinality(Keys) - Len(args)
C10_Witness ==
  /\ restrict
  /\ pc = "returned"
  /\ Len(args) = 1
  /\ Len(allowed) = 1

\* token k has no name=value form
Malformed(k) == EqCount(bits[k]) # 1
\* token k is refused by the name check of restrict mode
Disallowed(k) == restrict /\ C2_Offending(k)
\* the validator registered for token k refuses its raw value
Refused(k) ==
  \/ /\ HasValidator(k, "callable")
     /\ ~PyInt(ValueOf(bits[k])).ok
  \/ /\ HasValidator(k, "re")
     /\ ~StartsWith(ValueOf(bits[k]), args_spec.map[NameOf(bits[k])].pat)
Offends(k) == Malformed(k) \/ Disallowed(k) \/ Refused(k)
FirstOffender ==
  CHOOSE k \in 1..Len(bits) : Offends(k) /\ \A j \in 1..(k - 1) : ~Offends(j)

RECURSIVE CallableTokens(_)
\* the (name, raw value) of the tokens among the first k whose name has a
\* callable validator, in the order of the tokens
CallableTokens(k) ==
  IF k = 0 THEN <<>>
  ELSE IF WellFormed(k) /\ NameOf(bits[k]) \in Keys
          /\ args_spec.map[NameOf(bits[k])].kind = "callable"
  THEN Append(CallableTokens(k - 1), <<NameOf(bits[k]), Text(ValueOf(bits[k]))>>)
  ELSE CallableTokens(k - 1)

\* C11: tokens are processed in input order and the call stops at the
\* first offending token: it fails on that token with that token's error,
\* returns nothing, has invoked no validator of a later token, and under
\* restrict=True has invoked no validator for a disallowed or repeated name
C11_StopsAtFirstOffender ==
  (Done /\ Consistent) =>
    IF \A k \in 1..Len(bits) : ~Offends(k)
    THEN /\ pc = "returned"
         /\ Len(args) = Len(bits)
         /\ [j \in 1..Len(calls) |-> <<calls[j].name, calls[j].arg>>]
              = CallableTokens(Len(bits))
    ELSE LET f == FirstOffender IN
         /\ pc = "raised"
         /\ i = f
         /\ Len(args) = f - 1
         /\ Malformed(f) => (exc.site = "form" /\ Carries(Text(bits[f])))
         /\ (~Malformed(f) /\ Disallowed(f)) => exc.site = "name"
         /\ Refused(f) =>
              /\ exc.site \in {"callable", "re"}
              /\ Carries(Text(NameOf(bits[f])))
              /\ Carries(Text(ValueOf(bits[f])))
         /\ [j \in 1..Len(calls) |-> <<calls[j].name, calls[j].arg>>]
              = CallableTokens(IF Refused(f) THEN f ELSE f - 1)
C11_Witness ==
  /\ restrict
  /\ pc = "raised"
  /\ i = 2
  /\ Len(bits) = 2
  /\ WellFormed(2)
  /\ Repeated(2)
  /\ args_spec.map[NameOf(bits[2])].kind = "callable"
  /\ ~PyInt(ValueOf(bits[2])).ok
  /\ Len(calls) = 1
  /\ calls[1].ok

RenderOver == rpc \in {"done", "raised"}
\* n pages hold the whole list, and no fewer do
HoldsAll(n) == n * size >= objects /\ \A m \in 1..(n - 1) : m * size < objects
\* the last page of the list, 0 when no number of pages holds the list
LastPage ==
  IF \E n \in 1..(objects + 1) : HoldsAll(n)
  THEN CHOOSE n \in 1..(objects + 1) : HoldsAll(n)
  ELSE 0
\* the page the parameter asks for, 1 when missing or no integer
AskedPage ==
  LET q == context0.request
  IN IF q.has /\ PyIntSigned(q.value).ok THEN PyIntSigned(q.value).n ELSE 1
\* render stored the page the claim describes, and touched nothing else
StoredValidPage ==
  /\ rpc = "done"
  /\ context.request = context0.request
  /\ context.page.set
  /\ context.page.num_pages = LastPage
  /\ context.page.number = IF AskedPage \in 1..LastPage THEN AskedPage ELSE LastPage
  /\ context.page.number \in 1..context.page.num_pages
\* without a request render raises and leaves the context as it was
RaisedWithoutRequest ==
  /\ rpc = "raised"
  /\ rexc = "RequestContextRequiredException"
  /\ context = context0

\* C12 (as stated): with a request, render always stores a valid page:
\* page 1 for a missing or non-integer parameter, the last page for a
\* number outside 1..num_pages; without one it raises
\* RequestContextRequiredException and leaves the context unchanged
C12_AlwaysStoresValidPage ==
  RenderOver =>
    IF context0.request.present THEN StoredValidPage ELSE RaisedWithoutRequest

\* C12 (amended): the same, when the page size is a positive integer
C12_StoresValidPageForPositiveSize ==
  (RenderOver /\ size >= 1) =>
    IF context0.request.present THEN StoredValidPage ELSE RaisedWithoutRequest
C12_Witness ==
  /\ rpc = "done"
  /\ size >= 1
  /\ context0.page = StalePage
  /\ AskedPage > LastPage
  /\ context.page.number = LastPage
  /\ LastPage > 1

====
